---- MODULE Spec2Model ----
(***************************************************************************)
(* Model of ntu_timetable_ics: the table parser (src/src/course.rs) and    *)
(* the event expander (src/src/cal.rs).                                    *)
(*                                                                         *)
(* Text is modelled by TLA+ strings; the parsers below scan them           *)
(* character by character as the regular expressions and str methods of    *)
(* the source do.  A call that unwinds (unwrap on None or Err) has the     *)
(* outcome "Panic".                                                        *)
(*                                                                         *)
(* A u32 below 2^31 is the integer itself; a u32 v of 2^31 or more is      *)
(* written v - 2^32 (its two's complement reading: u32::MAX is -1), which  *)
(* keeps every u32 within the integers TLC evaluates.  An arithmetic       *)
(* overflow panics in a build with overflow checks and wraps in a build    *)
(* without them: overflow_checks is the build of the modelled run.         *)
(***************************************************************************)
EXTENDS Integers, Sequences, FiniteSets, TLC

VARIABLES
    pc,                 \* position of the modelled call
    week_list,          \* the week list weeks_raw was printed from, <<>> for other text
    weeks_raw,          \* argument of parse_weeks
    recess_week,        \* argument of parse_weeks / parse_from_table
    overflow_checks,    \* the build panics on an arithmetic overflow (debug) or wraps
    weeks_result,       \* value of parse_weeks(weeks_raw, recess_week)
    table,              \* argument of parse_from_table
    rows,               \* parse_from_table: the chunks the loop iterates over
    row_i,              \* parse_from_table: index i of the next row of the loop
    courses,            \* parse_from_table: the local courses; generate_events: its argument
    table_result,       \* value of parse_from_table(table, recess_week)
    semester_start_date,\* argument of generate_events
    offset,             \* argument of generate_events: seconds east of UTC
    course_i,           \* generate_events: position of the loop over courses (1-based)
    class_i,            \* generate_events: position of the loop over course.classes (1-based)
    events,             \* generate_events: the local events
    events_result       \* outcome of generate_events

vars == <<pc, week_list, weeks_raw, recess_week, overflow_checks, weeks_result, table,
          rows, row_i, courses,
          table_result, semester_start_date, offset, course_i, class_i, events,
          events_result>>

eventVars == <<semester_start_date, offset, course_i, class_i, events, events_result>>
argVars == <<recess_week, overflow_checks>>
weeksVars == <<week_list, weeks_raw, weeks_result>>
tableVars == <<table, rows, row_i, table_result>>

-----------------------------------------------------------------------------
(* Bounds of the explored inputs *)

MaxEntries == 2     \* entries of a generated week list
MaxWeek == 4        \* largest week number of a generated week list
MaxRawLen == 3      \* characters after the marker of a raw week token
MaxRows == 2        \* complete rows of a generated table
MaxClasses == 2     \* classes of a generated course
MaxCourses == 2     \* courses of a generated course list

-----------------------------------------------------------------------------
(* Strings *)

Char(s, i) == SubSeq(s, i, i)

Digits == {"0", "1", "2", "3", "4", "5", "6", "7", "8", "9"}

DigitVal(c) ==
    CASE c = "0" -> 0 [] c = "1" -> 1 [] c = "2" -> 2 [] c = "3" -> 3
      [] c = "4" -> 4 [] c = "5" -> 5 [] c = "6" -> 6 [] c = "7" -> 7
      [] c = "8" -> 8 [] c = "9" -> 9

AllDigits(s) == \A i \in 1..Len(s) : Char(s, i) \in Digits

RECURSIVE DecimalValue(_)
DecimalValue(s) ==
    IF Len(s) = 0 THEN 0
    ELSE 10 * DecimalValue(SubSeq(s, 1, Len(s) - 1)) + DigitVal(Char(s, Len(s)))

\* The digits of d without its leading zeros (one digit at least is kept).
RECURSIVE StripZeros(_)
StripZeros(d) ==
    IF Len(d) > 1 /\ Char(d, 1) = "0" THEN StripZeros(SubSeq(d, 2, Len(d))) ELSE d

\* a <= b for two digit strings of the same length.
RECURSIVE DigitsLeq(_, _)
DigitsLeq(a, b) ==
    IF Len(a) = 0 THEN TRUE
    ELSE IF DigitVal(Char(a, 1)) # DigitVal(Char(b, 1))
    THEN DigitVal(Char(a, 1)) < DigitVal(Char(b, 1))
    ELSE DigitsLeq(SubSeq(a, 2, Len(a)), SubSeq(b, 2, Len(b)))

\* u32::MAX in decimal
U32MaxDigits == "4294967295"

\* i32::MAX in decimal: the largest u32 written as itself.
I32MaxDigits == "2147483647"

\* The u32 of the digit string d (no leading zeros, at most u32::MAX).
U32OfDigits(d) ==
    IF Len(d) < Len(I32MaxDigits) \/ DigitsLeq(d, I32MaxDigits) THEN DecimalValue(d)
    ELSE 10 * (DecimalValue(SubSeq(d, 1, 9)) - 429496728) + (DigitVal(Char(d, 10)) - 16)

\* a < b on two u32
U32Lt(a, b) == IF (a < 0) = (b < 0) THEN a < b ELSE b < 0

\* w + 1 overflows: w is u32::MAX
U32AddOverflows(w) == w = -1

\* w.wrapping_add(1)
U32WrappingSucc(w) ==
    IF w = -1 THEN 0 ELSE IF w = 2147483647 THEN (0 - 2147483647) - 1 ELSE w + 1

\* Ok(value) as <<value>> when the digit string d (no leading zeros) fits a
\* u32, Err (PosOverflow) as <<>> when it does not.
FitU32(d) ==
    IF Len(d) > Len(U32MaxDigits) THEN <<>>
    ELSE IF Len(d) = Len(U32MaxDigits) /\ ~DigitsLeq(d, U32MaxDigits) THEN <<>>
    ELSE <<U32OfDigits(d)>>

\* The digits after the optional sign.
ParseDigits(body) ==
    IF Len(body) = 0 \/ ~AllDigits(body) THEN <<>> ELSE FitU32(StripZeros(body))

\* str::parse::<u32>: an optional '+', then one or more ASCII digits whose
\* value fits a u32.  <<v>> stands for Ok(v), <<>> for Err(ParseIntError).
ParseU32(s) ==
    IF Len(s) > 0 /\ Char(s, 1) = "+" THEN ParseDigits(SubSeq(s, 2, Len(s)))
    ELSE ParseDigits(s)

\* Position of the first occurrence of pat in s at or after position from, 0 if none.
FindFrom(s, pat, from) ==
    LET hits == {i \in from..(Len(s) - Len(pat) + 1) : SubSeq(s, i, i + Len(pat) - 1) = pat}
    IN  IF hits = {} THEN 0 ELSE CHOOSE i \in hits : \A j \in hits : i <= j

\* str::split(sep) for a one-character separator: always at least one piece.
RECURSIVE Split(_, _)
Split(s, sep) ==
    LET p == FindFrom(s, sep, 1)
    IN  IF p = 0 THEN <<s>>
        ELSE <<SubSeq(s, 1, p - 1)>> \o Split(SubSeq(s, p + 1, Len(s)), sep)

-----------------------------------------------------------------------------
(* parse_weeks *)

Marker == "Teaching Wk"

\* Regex "Teaching Wk(.*)": leftmost match, group 1 runs to the end of the
\* line ('.' does not match a newline).  <<FALSE, "">> when there is no match.
WeeksCapture(s) ==
    LET p == FindFrom(s, Marker, 1)
        rest == SubSeq(s, p + Len(Marker), Len(s))
        nl == FindFrom(rest, "\n", 1)
    IN  IF p = 0 THEN <<FALSE, "">>
        ELSE IF nl = 0 THEN <<TRUE, rest>>
        ELSE <<TRUE, SubSeq(rest, 1, nl - 1)>>

\* Regex "^(?<start>[0-9]+)-(?<end>[0-9]+)$": <<matched, start, end>>.
RangeCapture(x) ==
    LET p == FindFrom(x, "-", 1)
        a == SubSeq(x, 1, p - 1)
        b == SubSeq(x, p + 1, Len(x))
    IN  IF p = 0 THEN <<FALSE, "", "">>
        ELSE IF Len(a) > 0 /\ Len(b) > 0 /\ AllDigits(a) /\ AllDigits(b)
             THEN <<TRUE, a, b>>
             ELSE <<FALSE, "", "">>

\* (a..b).collect::<Vec<u32>>()
RECURSIVE Interval(_, _)
Interval(a, b) == IF ~U32Lt(a, b) THEN <<>> ELSE <<a>> \o Interval(U32WrappingSucc(a), b)

WeeksOk(ws) == [tag |-> "Ok", weeks |-> ws]
WeeksErr == [tag |-> "Err", weeks |-> <<>>]
WeeksPanic == [tag |-> "Panic", weeks |-> <<>>]

\* weeks.push(x.parse::<u32>().unwrap())
SingleWeek(w) == IF w = <<>> THEN WeeksPanic ELSE WeeksOk(<<w[1]>>)

\* weeks.extend((start..end + 1).collect::<Vec<u32>>()): end + 1 overflows
\* for end = u32::MAX, a panic with overflow checks and 0 without them.
RangeWeeks(start, end) ==
    IF U32AddOverflows(end) /\ overflow_checks THEN WeeksPanic
    ELSE WeeksOk(Interval(start, U32WrappingSucc(end)))

\* The unwraps of the two captures of a range.
RangeOfCaptures(start, end) ==
    IF start = <<>> \/ end = <<>> THEN WeeksPanic ELSE RangeWeeks(start[1], end[1])

\* The range cap = <<matched, start, end>> when the entry x matched the range
\* pattern, the single week x otherwise.
EntryOfCapture(x, cap) ==
    IF cap[1] THEN RangeOfCaptures(ParseU32(cap[2]), ParseU32(cap[3]))
    ELSE SingleWeek(ParseU32(x))

\* One iteration of the loop over weeks_raw.split(','): the weeks the entry
\* x contributes.
WeeksOfEntry(x) == EntryOfCapture(x, RangeCapture(x))

RECURSIVE WeeksOfEntries(_)
WeeksOfEntries(xs) ==
    IF xs = <<>> THEN WeeksOk(<<>>)
    ELSE LET h == WeeksOfEntry(Head(xs))
             t == WeeksOfEntries(Tail(xs))
         IN  IF h.tag # "Ok" THEN h
             ELSE IF t.tag # "Ok" THEN t
             ELSE WeeksOk(h.weeks \o t.weeks)

\* RecessAdjust with the recess week itself left unshifted.
RecessAdjustInclusive(w, rw) == IF U32Lt(w, rw) \/ w = rw THEN w ELSE U32WrappingSucc(w)

\* The closure |w| if w < recess_week { w } else { w + 1 }, w + 1 wrapped.
RecessAdjust(w, rw) == IF U32Lt(w, rw) THEN w ELSE U32WrappingSucc(w)

\* The closure panics on w: w + 1 overflows in a build with overflow checks.
RecessPanics(w, rw) == overflow_checks /\ ~U32Lt(w, rw) /\ U32AddOverflows(w)

\* The collected weeks r mapped through the recess adjustment.
AdjustWeeks(r, rw) ==
    IF r.tag # "Ok" THEN r
    ELSE IF \E i \in 1..Len(r.weeks) : RecessPanics(r.weeks[i], rw) THEN WeeksPanic
    ELSE WeeksOk([i \in 1..Len(r.weeks) |-> RecessAdjust(r.weeks[i], rw)])

\* parse_weeks from the capture cap of the marker pattern on.
WeeksOfCapture(cap, rw) ==
    IF ~cap[1] THEN WeeksErr
    ELSE AdjustWeeks(WeeksOfEntries(Split(cap[2], ",")), rw)

parse_weeks(raw, rw) == WeeksOfCapture(WeeksCapture(raw), rw)

-----------------------------------------------------------------------------
(* Calendar (chrono::NaiveDate, NaiveTime): a date is <<year, month, day>>, *)
(* a time of day is its number of seconds since midnight.                   *)

IsLeap(y) == (y % 4 = 0 /\ y % 100 # 0) \/ y % 400 = 0

DaysInMonth(y, m) ==
    CASE m \in {1, 3, 5, 7, 8, 10, 12} -> 31
      [] m \in {4, 6, 9, 11} -> 30
      [] m = 2 -> IF IsLeap(y) THEN 29 ELSE 28

\* NaiveDate::from_ymd_opt: <<>> stands for None.
from_ymd_opt(y, m, d) ==
    IF m \in 1..12 /\ d >= 1 /\ d <= DaysInMonth(y, m) THEN <<y, m, d>> ELSE <<>>

\* NaiveTime::from_hms_opt(h, m, 0): -1 stands for None.
from_hms_opt(h, m) == IF h < 24 /\ m < 60 THEN h * 3600 + m * 60 ELSE -1

LowerCase == "abcdefghijklmnopqrstuvwxyz"
UpperCase == "ABCDEFGHIJKLMNOPQRSTUVWXYZ"

ToLowerChar(c) ==
    IF \E i \in 1..26 : Char(UpperCase, i) = c
    THEN Char(LowerCase, CHOOSE i \in 1..26 : Char(UpperCase, i) = c)
    ELSE c

RECURSIVE ToLower(_)
ToLower(s) ==
    IF Len(s) = 0 THEN "" ELSE ToLowerChar(Char(s, 1)) \o ToLower(SubSeq(s, 2, Len(s)))

ShortWeekdays == <<"mon", "tue", "wed", "thu", "fri", "sat", "sun">>
LongWeekdays ==
    <<"monday", "tuesday", "wednesday", "thursday", "friday", "saturday", "sunday">>

\* str::parse::<Weekday> (chrono): a short or long English weekday name in
\* any letter case and nothing else.  1 = Mon .. 7 = Sun, 0 stands for Err.
parse_weekday(s) ==
    LET l == ToLower(s)
    IN  IF \E k \in 1..7 : l = ShortWeekdays[k] \/ l = LongWeekdays[k]
        THEN CHOOSE k \in 1..7 : l = ShortWeekdays[k] \/ l = LongWeekdays[k]
        ELSE 0

ShortMonths ==
    <<"jan", "feb", "mar", "apr", "may", "jun", "jul", "aug", "sep", "oct", "nov", "dec">>

\* str::parse::<Month> on a capture of [A-Z][a-z]{2}: 1..12, 0 stands for Err.
parse_month(s) ==
    LET l == ToLower(s)
    IN  IF \E k \in 1..12 : l = ShortMonths[k]
        THEN CHOOSE k \in 1..12 : l = ShortMonths[k]
        ELSE 0

-----------------------------------------------------------------------------
(* parse_period and parse_exam *)

\* The class \d of the regex crate is the Unicode class Nd.  Among the
\* characters a TLA+ string holds (up to U+00FF) its members are 0-9.
RegexDigits == Digits

AllRegexDigits(s) == \A i \in 1..Len(s) : Char(s, i) \in RegexDigits

\* The sub-pattern (\d\d)(\d\d)to(\d\d)(\d\d) at position p of s.
PeriodMatchAt(s, p) ==
    /\ p + 9 <= Len(s)
    /\ AllRegexDigits(SubSeq(s, p, p + 3))
    /\ SubSeq(s, p + 4, p + 5) = "to"
    /\ AllRegexDigits(SubSeq(s, p + 6, p + 9))

PeriodOk(st, en) == [tag |-> "Ok", start |-> st, end |-> en]
PeriodErr == [tag |-> "Err", start |-> 0, end |-> 0]
PeriodPanic == [tag |-> "Panic", start |-> 0, end |-> 0]

\* Ok(Period { start, end }) unless a from_hms_opt gave None.
PeriodOf(start, end) ==
    IF start = -1 \/ end = -1 THEN PeriodErr ELSE PeriodOk(start, end)

\* The four parsed captures turned into a Period: a capture that
\* parse::<u32>() rejects panics in the unwrap.
PeriodOfCaptures(sh, sm, eh, em) ==
    IF sh = <<>> \/ sm = <<>> \/ eh = <<>> \/ em = <<>> THEN PeriodPanic
    ELSE PeriodOf(from_hms_opt(sh[1], sm[1]), from_hms_opt(eh[1], em[1]))

\* The four captures at position p turned into a Period.
PeriodAt(s, p) ==
    PeriodOfCaptures(ParseU32(SubSeq(s, p, p + 1)), ParseU32(SubSeq(s, p + 2, p + 3)),
                     ParseU32(SubSeq(s, p + 6, p + 7)), ParseU32(SubSeq(s, p + 8, p + 9)))

parse_period(period) ==
    IF Len(period) = 10 /\ PeriodMatchAt(period, 1) THEN PeriodAt(period, 1)
    ELSE PeriodErr

IsUpper(c) == \E i \in 1..26 : Char(UpperCase, i) = c
IsLower(c) == \E i \in 1..26 : Char(LowerCase, i) = c

\* The exam pattern DD-Mon-YYYY HHMMtoHHMM at position p of s.
ExamMatchAt(s, p) ==
    /\ p + 21 <= Len(s)
    /\ AllRegexDigits(SubSeq(s, p, p + 1))
    /\ Char(s, p + 2) = "-"
    /\ IsUpper(Char(s, p + 3)) /\ IsLower(Char(s, p + 4)) /\ IsLower(Char(s, p + 5))
    /\ Char(s, p + 6) = "-"
    /\ AllDigits(SubSeq(s, p + 7, p + 10))
    /\ Char(s, p + 11) = " "
    /\ PeriodMatchAt(s, p + 12)

ExamOk(d, per) == [tag |-> "Ok", date |-> d, peroid |-> [start |-> per.start, end |-> per.end]]
ExamErr == [tag |-> "Err", date |-> <<>>, peroid |-> [start |-> 0, end |-> 0]]
ExamPanic == [tag |-> "Panic", date |-> <<>>, peroid |-> [start |-> 0, end |-> 0]]

\* The Exam built from the parsed day, month, date and period, in the order
\* of the function: day, month and date fail with Err, the hour and minute
\* captures are unwrapped after them.
ExamOf(day, month, date, per) ==
    IF day = <<>> \/ month = 0 \/ date = <<>> THEN ExamErr
    ELSE IF per.tag = "Panic" THEN ExamPanic
    ELSE IF per.tag = "Err" THEN ExamErr
    ELSE ExamOk(date, per)

\* from_ymd_opt on the parsed day (a day that did not parse gives no date).
ExamDate(year, month, day) ==
    IF day = <<>> THEN <<>> ELSE from_ymd_opt(year, month, day[1])

\* The captures of the match at position p turned into an Exam.
ExamOfCaptures(s, p, day, month) ==
    ExamOf(day, month,
           ExamDate(DecimalValue(SubSeq(s, p + 7, p + 10)), month, day),
           PeriodAt(s, p + 12))

ExamAt(s, p) ==
    ExamOfCaptures(s, p, ParseU32(SubSeq(s, p, p + 1)),
                   parse_month(SubSeq(s, p + 3, p + 5)))

\* Positions of s where the exam pattern matches.
ExamMatches(s) == {p \in 1..Len(s) : ExamMatchAt(s, p)}

\* The leftmost match of the positions ps, if any.
ExamAtFirst(s, ps) ==
    IF ps = {} THEN ExamErr
    ELSE LET p == CHOOSE q \in ps : \A r \in ps : q <= r
         IN  ExamAt(s, p)

parse_exam(exam_raw) == ExamAtFirst(exam_raw, ExamMatches(exam_raw))

-----------------------------------------------------------------------------
(* Course::new and Course::parse_from_table *)

NUM_COLUMNS == 16

\* The characters with the Unicode property White_Space among those a TLA+
\* string holds (up to U+00FF): U+0009 to U+000D, space, U+0085 and U+00A0.
Whitespace == {" ", "\t", "\n", "", "\f", "\r", "", " "}

\* str::trim
RECURSIVE Trim(_)
Trim(s) ==
    IF Len(s) = 0 THEN s
    ELSE IF Char(s, 1) \in Whitespace THEN Trim(SubSeq(s, 2, Len(s)))
    ELSE IF Char(s, Len(s)) \in Whitespace THEN Trim(SubSeq(s, 1, Len(s) - 1))
    ELSE s

\* String::replace('\n', "")
RECURSIVE RemoveNewlines(_)
RemoveNewlines(s) ==
    LET p == FindFrom(s, "\n", 1)
    IN  IF p = 0 THEN s
        ELSE SubSeq(s, 1, p - 1) \o RemoveNewlines(SubSeq(s, p + 1, Len(s)))

\* Itertools::chunks(n): consecutive groups of n items, the last one shorter
\* when the items run out.
RECURSIVE Chunks(_, _)
Chunks(xs, n) ==
    IF Len(xs) = 0 THEN <<>>
    ELSE IF Len(xs) <= n THEN <<xs>>
    ELSE <<SubSeq(xs, 1, n)>> \o Chunks(SubSeq(xs, n + 1, Len(xs)), n)

Tokens(text) == Split(RemoveNewlines(text), "\t")

\* The rows the loop of parse_from_table iterates over, each item trimmed.
TableRows(text) ==
    LET cs == Chunks(Tokens(text), NUM_COLUMNS)
    IN  [k \in 1..Len(cs) |-> [j \in 1..Len(cs[k]) |-> Trim(cs[k][j])]]

\* CourseNew that looks at the course code only.
CourseNewCodeOnly(code, title, au, course_type, index, status) ==
    IF code = "" THEN <<>>
    ELSE <<[code |-> code, title |-> title, au |-> au, course_type |-> course_type,
            index |-> index, status |-> status, classes |-> <<>>, exam |-> <<>>]>>

\* Course::new: <<>> stands for Err(ParseCourseError).
CourseNew(code, title, au, course_type, index, status) ==
    IF code = "" \/ title = "" \/ au = "" \/ course_type = "" \/ index = "" \/ status = ""
    THEN <<>>
    ELSE <<[code |-> code, title |-> title, au |-> au, course_type |-> course_type,
            index |-> index, status |-> status, classes |-> <<>>, exam |-> <<>>]>>

\* row[k] of the source (0-based)
Col(row, k) == row[k + 1]

\* courses.last_mut() updated by f
WithLast(cs, field, val) ==
    [cs EXCEPT ![Len(cs)] = [@ EXCEPT ![field] = val]]

TableOk(cs) == [tag |-> "Ok", err |-> "", msg |-> "", class |-> <<>>, courses |-> cs]
TableErr(e, m, cl) == [tag |-> "Err", err |-> e, msg |-> m, class |-> cl, courses |-> <<>>]
TablePanic == [tag |-> "Panic", err |-> "", msg |-> "", class |-> <<>>, courses |-> <<>>]
TableContinue(cs) == [tag |-> "Continue", err |-> "", msg |-> "", class |-> <<>>, courses |-> cs]

MissingColumnsMsg(i, row) ==
    "Missing columns from table on line " \o ToString(i) \o ", expected "
        \o ToString(Len(row)) \o ", found " \o ToString(NUM_COLUMNS)

\* The part of the loop body after the exam: the class of the row.
PushClass(cs, row, weekday, period, weeks) ==
    LET class == [weekday |-> weekday,
                  period |-> [start |-> period.start, end |-> period.end],
                  venue |-> Col(row, 13), group |-> Col(row, 10),
                  weeks |-> weeks.weeks, class_type |-> Col(row, 9)]
    IN  IF Col(row, 9) = "" THEN TableContinue(cs)
        ELSE IF weekday = 0 THEN TableErr("Other", "", <<>>)
        ELSE IF period.tag = "Panic" THEN TablePanic
        ELSE IF period.tag = "Err" THEN TableErr("Other", "", <<>>)
        ELSE IF weeks.tag = "Panic" THEN TablePanic
        ELSE IF weeks.tag = "Err" THEN TableErr("Other", "", <<>>)
        ELSE IF Len(cs) > 0
             THEN TableContinue(WithLast(cs, "classes",
                                         Append(cs[Len(cs)].classes, class)))
             ELSE TableErr("UnknownCourse", "Unknown course for class", <<class>>)

RowClass(cs, row, rw) ==
    PushClass(cs, row, parse_weekday(Col(row, 11)), parse_period(Col(row, 12)),
              parse_weeks(Col(row, 14), rw))

\* current_course.exam = Some(parse_exam(..)?), then the class of the row.
SetExam(cs, row, rw, exam) ==
    IF exam.tag = "Panic" THEN TablePanic
    ELSE IF exam.tag = "Err" THEN TableErr("Other", "", <<>>)
    ELSE RowClass(WithLast(cs, "exam", <<[date |-> exam.date, peroid |-> exam.peroid]>>),
                  row, rw)

\* RowExam with the exam parsed before looking for the current course.
RowExamEager(cs, row, rw) ==
    IF Col(row, 15) # "" /\ Col(row, 15) # "Not Applicable"
    THEN IF parse_exam(Col(row, 15)).tag # "Ok" THEN TableErr("Other", "", <<>>)
         ELSE IF Len(cs) > 0 THEN SetExam(cs, row, rw, parse_exam(Col(row, 15)))
         ELSE RowClass(cs, row, rw)
    ELSE RowClass(cs, row, rw)

\* The part of the loop body from the exam on.
RowExam(cs, row, rw) ==
    IF Col(row, 15) # "" /\ Col(row, 15) # "Not Applicable" /\ Len(cs) > 0
    THEN SetExam(cs, row, rw, parse_exam(Col(row, 15)))
    ELSE RowClass(cs, row, rw)

\* One iteration of the loop of parse_from_table on row number i (0-based).
ProcessRow(cs, i, row, rw) ==
    IF Len(row) # NUM_COLUMNS
    THEN TableErr("MissingValues", MissingColumnsMsg(i, row), <<>>)
    ELSE RowExam(cs \o CourseNew(Col(row, 0), Col(row, 1), Col(row, 2),
                                       Col(row, 3), Col(row, 6), Col(row, 7)),
                 row, rw)

RECURSIVE FoldRows(_, _, _, _)
FoldRows(cs, rs, i, rw) ==
    IF i >= Len(rs) THEN TableOk(cs)
    ELSE LET r == ProcessRow(cs, i, rs[i + 1], rw)
         IN  IF r.tag = "Continue" THEN FoldRows(r.courses, rs, i + 1, rw) ELSE r

parse_from_table(text, rw) == FoldRows(<<>>, TableRows(text), 0, rw)

-----------------------------------------------------------------------------
(* Calendar arithmetic of chrono used by the event expander *)

\* Days of the years before year y, counted from 0001-01-01.
DaysBeforeYear(y) ==
    365 * (y - 1) + ((y - 1) \div 4) - ((y - 1) \div 100) + ((y - 1) \div 400)

RECURSIVE DaysBeforeMonth(_, _)
DaysBeforeMonth(y, m) ==
    IF m = 1 THEN 0 ELSE DaysBeforeMonth(y, m - 1) + DaysInMonth(y, m - 1)

\* Datelike::ordinal
Ordinal(date) == DaysBeforeMonth(date[1], date[2]) + date[3]

\* Datelike::num_days_from_ce: 0001-01-01 is day 1
NumDaysFromCe(date) == DaysBeforeYear(date[1]) + Ordinal(date)

\* NaiveDate::MIN and NaiveDate::MAX
MinNaiveDate == <<0 - 262143, 1, 1>>
MaxNaiveDate == <<262142, 12, 31>>

\* The day number n is the one of a NaiveDate.
InNaiveRange(n) == NumDaysFromCe(MinNaiveDate) <= n /\ n <= NumDaysFromCe(MaxNaiveDate)

\* NaiveDate::from_num_days_from_ce
DateFromDays(n) ==
    LET y == CHOOSE yy \in (((n \div 366) - 1)..((n \div 365) + 1))
                              \cup (((n \div 365) - 1)..((n \div 366) + 1)) :
                 DaysBeforeYear(yy) < n /\ n <= DaysBeforeYear(yy + 1)
        ord == n - DaysBeforeYear(y)
        m == CHOOSE mm \in 1..12 :
                 DaysBeforeMonth(y, mm) < ord /\ ord <= DaysBeforeMonth(y, mm) + DaysInMonth(y, mm)
    IN  <<y, m, ord - DaysBeforeMonth(y, m)>>

\* Datelike::weekday as Weekday::number_from_monday: 1 = Mon .. 7 = Sun
WeekdayOf(date) == ((NumDaysFromCe(date) - 1) % 7) + 1

\* Weekday::number_from_sunday: 1 = Sun, 2 = Mon .. 7 = Sat
NumberFromSunday(wd) == (wd % 7) + 1

\* Number of ISO weeks of ISO year y: 53 when 1 January is a Thursday, or a
\* Wednesday in a leap year.
WeeksInYear(y) ==
    LET jan1 == WeekdayOf(<<y, 1, 1>>)
    IN  IF jan1 = 4 \/ (jan1 = 3 /\ IsLeap(y)) THEN 53 ELSE 52

\* Datelike::iso_week: <<ISO year, ISO week number>>
IsoWeek(date) ==
    LET y == date[1]
        w == (Ordinal(date) - WeekdayOf(date) + 10) \div 7
    IN  IF w < 1 THEN <<y - 1, WeeksInYear(y - 1)>>
        ELSE IF w > WeeksInYear(y) THEN <<y + 1, 1>>
        ELSE <<y, w>>

\* NaiveDate::from_isoywd_opt: <<>> stands for None.
from_isoywd_opt(y, w, wd) ==
    LET jan4 == NumDaysFromCe(<<y, 1, 4>>)
        monday1 == jan4 - (WeekdayOf(<<y, 1, 4>>) - 1)
    IN  IF w < 1 \/ w > WeeksInYear(y) THEN <<>>
        ELSE IF ~InNaiveRange(monday1 + (w - 1) * 7 + (wd - 1)) THEN <<>>
        ELSE DateFromDays(monday1 + (w - 1) * 7 + (wd - 1))

\* NaiveDate::checked_add_days: <<>> stands for None, the day after
\* NaiveDate::MAX and every later one.
checked_add_days(date, days) ==
    IF days > NumDaysFromCe(MaxNaiveDate) - NumDaysFromCe(date) THEN <<>>
    ELSE DateFromDays(NumDaysFromCe(date) + days)

-----------------------------------------------------------------------------
(* Event expander: src/src/cal.rs *)

Pad(n, width) ==
    LET t == ToString(n)
    IN  IF Len(t) >= width THEN t ELSE SubSeq("0000", 1, width - Len(t)) \o t

\* %Y: four digits for the years 0 to 9999, and a sign before the digits of
\* every other year.
FormatYear(y) ==
    IF y < 0 THEN "-" \o Pad(0 - y, 4)
    ELSE IF y > 9999 THEN "+" \o Pad(y, 4)
    ELSE Pad(y, 4)

\* A DateTime<Utc> is <<date, second of the day>>.
\* datetime.format("%Y%m%dT%H%M%SZ")
to_rfc5545_datetime_with_utc(datetime) ==
    LET d == datetime[1]
        t == datetime[2]
    IN  FormatYear(d[1]) \o Pad(d[2], 2) \o Pad(d[3], 2) \o "T"
          \o Pad(t \div 3600, 2) \o Pad((t % 3600) \div 60, 2) \o Pad(t % 60, 2) \o "Z"

\* The UTC instant t seconds after the midnight of day number n: <<>> stands
\* for the panic of DateTime::from_local on an instant outside of
\* NaiveDate::MIN .. NaiveDate::MAX.
UtcOf(n, t) ==
    IF ~InNaiveRange(n + (t \div 86400)) THEN <<>>
    ELSE <<DateFromDays(n + (t \div 86400)), t % 86400>>

\* The local date and time at the offset off, as UTC.
convert_naive_to_utc_datetime(date, time, off) == UtcOf(NumDaysFromCe(date), time - off)

\* The closure of the map from the date of the occurrence on: <<event>>, or
\* <<>> for a panic of a conversion.  An ics Event is the scope of its
\* identifier (the course code; the uuid and the creation stamp are fresh for
\* every event) and the properties pushed, in push order.
ClassEventOf(course_code, course_title, class, date, off) ==
    IF \/ convert_naive_to_utc_datetime(date, class.period.start, off) = <<>>
       \/ convert_naive_to_utc_datetime(date, class.period.end, off) = <<>>
    THEN <<>>
    ELSE <<[uid |-> course_code,
            props |-> << <<"SUMMARY",
                           course_code \o " - " \o course_title \o " " \o class.class_type>>,
                         <<"DTSTART", to_rfc5545_datetime_with_utc(
                                          convert_naive_to_utc_datetime(date, class.period.start, off))>>,
                         <<"DTEND", to_rfc5545_datetime_with_utc(
                                        convert_naive_to_utc_datetime(date, class.period.end, off))>>,
                         <<"CATEGORIES", class.class_type>>,
                         <<"LOCATION", class.venue>> >>]>>

ClassEventsOk(evs) == [tag |-> "Ok", events |-> evs, triple |-> <<>>]
ClassEventsErr(t) == [tag |-> "Err", events |-> <<>>, triple |-> t]
ClassEventsPanic == [tag |-> "Panic", events |-> <<>>, triple |-> <<>>]

\* semester_start_date.checked_add_days(Days::new((w - 1) as u64 * 7)) for
\* w >= 1: <<>> stands for None.  A number of days above 2^31 - 1 (every
\* week of 2^31 or more among them) is beyond every NaiveDate.
DateOfWeek(first, w) ==
    IF w < 0 \/ w - 1 > 2147483647 \div 7 THEN <<>>
    ELSE checked_add_days(first, (w - 1) * 7)

\* The closure of the map on the week w: <<event>>, or <<>> for a panic.
\* w - 1 underflows for w = 0 (a panic with overflow checks, and without
\* them a number of days no NaiveDate can hold), the unwrap of
\* checked_add_days panics on None, and so does a conversion to UTC.
ClassEventOfWeek(course_code, course_title, class, first, w, off) ==
    IF w = 0 \/ DateOfWeek(first, w) = <<>> THEN <<>>
    ELSE ClassEventOf(course_code, course_title, class, DateOfWeek(first, w), off)

\* The events of the weeks of the class from the first occurrence on, unless
\* the closure panicked on a week.
ClassEventsFrom(course_code, course_title, class, first, off) ==
    IF \E j \in 1..Len(class.weeks) :
          ClassEventOfWeek(course_code, course_title, class, first, class.weeks[j], off) = <<>>
    THEN ClassEventsPanic
    ELSE ClassEventsOk([j \in 1..Len(class.weeks) |->
                          ClassEventOfWeek(course_code, course_title, class, first,
                                           class.weeks[j], off)[1]])

\* The first occurrence: the date of the weekday of the class in the week of
\* the semester start.
FirstOccurrence(class, year, week, first, course_code, course_title, off) ==
    IF first = <<>>
    THEN ClassEventsErr(<<year, week, NumberFromSunday(class.weekday)>>)
    ELSE ClassEventsFrom(course_code, course_title, class, first, off)

generate_class_events(course_code, course_title, class, start_date, off) ==
    FirstOccurrence(class, start_date[1], IsoWeek(start_date)[2],
                    from_isoywd_opt(start_date[1], IsoWeek(start_date)[2], class.weekday),
                    course_code, course_title, off)

\* <<event>>, or <<>> for a panic of a conversion.
generate_exam_event(course_code, course_title, exam, off) ==
    IF \/ convert_naive_to_utc_datetime(exam.date, exam.peroid.start, off) = <<>>
       \/ convert_naive_to_utc_datetime(exam.date, exam.peroid.end, off) = <<>>
    THEN <<>>
    ELSE <<[uid |-> course_code,
            props |-> << <<"SUMMARY", course_code \o " - " \o course_title \o " Exam">>,
                         <<"DTSTART", to_rfc5545_datetime_with_utc(
                                          convert_naive_to_utc_datetime(exam.date, exam.peroid.start, off))>>,
                         <<"DTEND", to_rfc5545_datetime_with_utc(
                                        convert_naive_to_utc_datetime(exam.date, exam.peroid.end, off))>>,
                         <<"CATEGORIES", "Exam">> >>]>>

EventsOk(evs) == [tag |-> "Ok", events |-> evs]
EventsPanic == [tag |-> "Panic", events |-> <<>>]

EventsIdle ==
    /\ semester_start_date = <<1, 1, 1>> /\ offset = 0
    /\ course_i = 1 /\ class_i = 1 /\ events = <<>> /\ events_result = EventsOk(<<>>)

-----------------------------------------------------------------------------
(* Inputs of parse_weeks *)

RecessWeeks == {1, 2, 4, 8}

RawAlphabet == {"0", "1", "3", ",", "-", "x"}

RECURSIVE Strs(_)
Strs(n) ==
    IF n = 0 THEN {""}
    ELSE Strs(n - 1) \cup {s \o c : s \in Strs(n - 1), c \in RawAlphabet}

\* A week list as the timetable export prints it: single weeks <<a, a>> and
\* ranges <<a, b>> with a <= b.
Entries == {<<a, b>> \in (0..MaxWeek) \X (0..MaxWeek) : a <= b}

RECURSIVE EntryLists(_)
EntryLists(n) ==
    IF n = 0 THEN {<<>>}
    ELSE EntryLists(n - 1) \cup {Append(es, e) : es \in EntryLists(n - 1), e \in Entries}

RenderEntry(e) ==
    IF e[1] = e[2] THEN ToString(e[1]) ELSE ToString(e[1]) \o "-" \o ToString(e[2])

RECURSIVE RenderEntries(_)
RenderEntries(es) ==
    IF Len(es) = 1 THEN RenderEntry(es[1])
    ELSE RenderEntry(Head(es)) \o "," \o RenderEntries(Tail(es))

\* The week lists of the two examples of the documentation.
ExampleLists ==
    { << <<3, 5>>, <<7, 7>> >>, << <<6, 6>>, <<7, 7>>, <<8, 8>>, <<9, 9>>, <<10, 10>> >> }

WeekLists == (EntryLists(MaxEntries) \ {<<>>}) \cup ExampleLists

\* Text in front of the marker
Prefixes == {"", "Sem 1 "}

RawTokens == Strs(MaxRawLen) \cup {Marker \o b : b \in Strs(MaxRawLen)}

OtherTokens ==
    { "Wk 2 Teaching Wk1-3", "Teaching Wk+2", "Teaching Wk 2", "Teaching Wk1\n,x",
      "Teaching Wk007", "Teaching Wk123456789", "teaching wk1",
      "Teaching Wk0000000002", "Teaching Wk1-0000000003", "Teaching Wk4294967296",
      "Teaching Wk99999999999", "Teaching Wk2147483647", "Teaching Wk2147483648",
      "Teaching Wk4294967294", "Teaching Wk4294967295",
      "Teaching Wk4294967294-4294967295", "Teaching Wk4294967295-4294967295",
      "Teaching Wk4294967295-0" }

-----------------------------------------------------------------------------
(* Specification of a call of parse_weeks *)

WeeksIdle == week_list = <<>> /\ weeks_raw = "" /\ weeks_result = WeeksErr

TableIdle == table = "" /\ rows = <<>> /\ row_i = 0 /\ table_result = TableOk(<<>>)

InitWeeks ==
    /\ pc = "parse_weeks"
    /\ \/ /\ week_list \in WeekLists
          /\ \E pre \in Prefixes : weeks_raw = pre \o Marker \o RenderEntries(week_list)
       \/ /\ week_list = <<>>
          /\ weeks_raw \in RawTokens \cup OtherTokens
    /\ recess_week \in RecessWeeks
    /\ overflow_checks \in BOOLEAN
    /\ weeks_result = WeeksErr
    /\ courses = <<>>
    /\ TableIdle
    /\ EventsIdle

CallParseWeeks ==
    /\ pc = "parse_weeks"
    /\ weeks_result' = parse_weeks(weeks_raw, recess_week)
    /\ pc' = "weeks_done"
    /\ UNCHANGED <<week_list, weeks_raw, argVars, tableVars, courses, eventVars>>

NextWeeks == CallParseWeeks

SpecWeeks == InitWeeks /\ [][NextWeeks]_vars

-----------------------------------------------------------------------------
(* Inputs of parse_from_table *)

HdrA == <<"CZ1", "Algo", "3", "CORE", "101", "REG">>
HdrB == <<" MH2 ", "Calc\nII", "4", "BDE", "202", "WAIT">>
HdrPartial == <<"CZ9", "Net", "3", "CORE", " ", "REG">>
HdrNone == <<"", "", "", "", "", "">>

\* class_type, group, weekday, period, venue, week list (columns 9..14)
ClsNone == <<"", "", "", "", "", "">>
ClsLec == <<"LEC", "L1", "Mon", "0900to1030", "LT1", "Teaching Wk1-3">>
ClsTut == <<"\f TUT", "T2", "Fri", "1430to1530", "TR2 ", "Teaching Wk8,2">>
ClsLab == <<"LAB", "A3", "Wed", "1000to1200", "HW1", "Teaching Wk0-1">>
ClsEmptyRange == <<"SEM", "S4", "sunday", "0000to2359", "", "Teaching Wk5-3">>
ClsBadWeekday == <<"LEC", "L1", "Xyz", "0900to1030", "LT1", "Teaching Wk1">>
ClsBadPeriod == <<"LEC", "L1", "Mon", "2500to1030", "LT1", "Teaching Wk1">>
ClsNoMarker == <<"LEC", "L1", "Mon", "0900to1030", "LT1", "Wk1">>
ClsBadEntry == <<"LEC", "L1", "Mon", "0900to1030", "LT1", "Teaching Wk1,x">>
ClsMaxWeek == <<"LEC", "L1", "Mon", "0900to1030", "LT1 ", "Teaching Wk4294967295">>

GoodClasses == {ClsLec, ClsTut, ClsLab, ClsEmptyRange}
BadClasses == {ClsBadWeekday, ClsBadPeriod, ClsNoMarker, ClsBadEntry, ClsMaxWeek}

ExamGood == "01-Dec-2023 0900to1100"
ExamBadDate == "31-Feb-2024 0900to1100"
NoExams == {"", "Not\n Applicable"}
Exams == NoExams \cup {ExamGood, ExamBadDate}

MkRow(h, c, e) ==
    <<h[1], h[2], h[3], h[4], "-", "", h[5], h[6], "x",
      c[1], c[2], c[3], c[4], c[5], c[6], e>>

\* The first row: with and without a header, every class part, every exam.
FirstRows ==
    {MkRow(h, c, e) : h \in {HdrA, HdrNone},
                      c \in {ClsNone} \cup GoodClasses \cup BadClasses, e \in Exams}
    \cup {MkRow(h, c, e) : h \in {HdrB, HdrPartial}, c \in {ClsNone, ClsTut},
                           e \in {"", ExamGood}}

NextRows ==
    { MkRow(HdrB, ClsTut, "Not\n Applicable"), MkRow(HdrNone, ClsLec, ""),
      MkRow(HdrNone, ClsNone, ExamGood), MkRow(HdrPartial, ClsLab, ""),
      MkRow(HdrNone, ClsBadEntry, ""), MkRow(HdrA, ClsNone, "") }

RECURSIVE RowLists(_)
RowLists(n) ==
    IF n = 0 THEN {<<>>}
    ELSE IF n = 1 THEN {<<>>} \cup {<<r>> : r \in FirstRows}
    ELSE RowLists(n - 1) \cup
         {Append(rs, r) : rs \in RowLists(n - 1) \ {<<>>}, r \in NextRows}

\* Tokens after the last complete row: none, the empty token a final tab
\* leaves, or a row cut short by one token.
Tails == {<<>>, <<"">>, SubSeq(MkRow(HdrA, ClsLec, ""), 1, NUM_COLUMNS - 1)}

RECURSIVE Flatten(_)
Flatten(rs) == IF rs = <<>> THEN <<>> ELSE Head(rs) \o Flatten(Tail(rs))

RECURSIVE JoinTab(_)
JoinTab(cells) ==
    IF Len(cells) = 0 THEN ""
    ELSE IF Len(cells) = 1 THEN cells[1]
    ELSE cells[1] \o "\t" \o JoinTab(Tail(cells))

Tables == {JoinTab(Flatten(rs) \o t) : rs \in RowLists(MaxRows), t \in Tails}

-----------------------------------------------------------------------------
(* Specification of a call of Course::parse_from_table *)

\* The recess week and the build of the explored calls.
TableArgs == {<<2, TRUE>>, <<8, FALSE>>}

InitTable ==
    /\ pc = "parse_row"
    /\ table \in Tables
    /\ rows = TableRows(table)
    /\ \E a \in TableArgs : recess_week = a[1] /\ overflow_checks = a[2]
    /\ row_i = 0 /\ courses = <<>> /\ table_result = TableOk(<<>>)
    /\ WeeksIdle
    /\ EventsIdle

\* One iteration of the for loop.
ParseRow ==
    /\ pc = "parse_row"
    /\ row_i < Len(rows)
    /\ \E r \in {ProcessRow(courses, row_i, rows[row_i + 1], recess_week)} :
           IF r.tag = "Continue"
           THEN /\ courses' = r.courses
                /\ row_i' = row_i + 1
                /\ UNCHANGED <<pc, table_result>>
           ELSE /\ table_result' = r
                /\ pc' = "table_done"
                /\ UNCHANGED <<courses, row_i>>
    /\ UNCHANGED <<table, rows, argVars, weeksVars, eventVars>>

\* Ok(courses) after the last row.
ReturnCourses ==
    /\ pc = "parse_row"
    /\ row_i >= Len(rows)
    /\ table_result' = TableOk(courses)
    /\ pc' = "table_done"
    /\ UNCHANGED <<table, rows, argVars, row_i, courses, weeksVars, eventVars>>

NextTable == ParseRow \/ ReturnCourses

SpecTable == InitTable /\ [][NextTable]_vars

-----------------------------------------------------------------------------
(* Inputs of generate_events *)

MkClass(wd, st, en, venue, group, weeks, class_type) ==
    [weekday |-> wd, period |-> [start |-> st, end |-> en], venue |-> venue,
     group |-> group, weeks |-> weeks, class_type |-> class_type]

ClassPool ==
    { MkClass(1, 32400, 37800, "LT1", "L1", <<1, 3>>, "LEC"),
      MkClass(5, 52200, 55800, "TR2", "T2", <<9, 2>>, "TUT"),
      MkClass(7, 0, 86340, "", "S4", <<>>, "SEM"),
      MkClass(3, 36000, 43200, "HW1", "A3", <<0, 1>>, "LAB"),
      MkClass(1, 72000, 82800, "HW2", "A4", <<13572358>>, "LAB") }

RECURSIVE ClassLists(_)
ClassLists(n) ==
    IF n = 0 THEN {<<>>}
    ELSE ClassLists(n - 1) \cup {Append(cl, c) : cl \in ClassLists(n - 1), c \in ClassPool}

ExamPool ==
    { <<>>,
      <<[date |-> <<2023, 12, 1>>, peroid |-> [start |-> 32400, end |-> 39600]]>>,
      <<[date |-> MinNaiveDate, peroid |-> [start |-> 3600, end |-> 10800]]>> }

MkCourse(code, title, classes, exam) ==
    [code |-> code, title |-> title, au |-> "3", course_type |-> "CORE", index |-> "101",
     status |-> "REG", classes |-> classes, exam |-> exam]

FirstCourses == {MkCourse("CZ1", "Algo", cl, e) : cl \in ClassLists(MaxClasses), e \in ExamPool}

NextCourses ==
    { MkCourse("MH2", "Calc", <<>>,
               <<[date |-> <<2023, 12, 1>>, peroid |-> [start |-> 32400, end |-> 39600]]>>),
      MkCourse("MH2", "Calc", <<MkClass(1, 32400, 37800, "LT1", "L1", <<1, 3>>, "LEC")>>, <<>>),
      MkCourse("EE3", "Circ", <<MkClass(5, 52200, 55800, "TR2", "T2", <<9, 2>>, "TUT")>>,
               <<[date |-> <<2024, 2, 29>>, peroid |-> [start |-> 0, end |-> 3600]]>>) }

RECURSIVE CourseLists(_)
CourseLists(n) ==
    IF n = 0 THEN {<<>>}
    ELSE IF n = 1 THEN {<<>>} \cup {<<c>> : c \in FirstCourses}
    ELSE CourseLists(n - 1) \cup
         {Append(cs, c) : cs \in CourseLists(n - 1) \ {<<>>}, c \in NextCourses}

\* A Monday, a Wednesday, and dates of weeks that straddle a year boundary:
\* 2024-12-30 (ISO 2025-W01), 2021-01-01 (ISO 2020-W53), 2023-01-01
\* (ISO 2022-W52), 2020-12-31 (ISO 2020-W53).
StartDates ==
    { <<2024, 1, 15>>, <<2024, 8, 14>>, <<2024, 12, 30>>, <<2021, 1, 1>>,
      <<2023, 1, 1>>, <<2020, 12, 31>> }

Offsets == {0, 28800, -18000}

-----------------------------------------------------------------------------
(* Specification of a call of generate_events *)

InitEvents ==
    /\ pc = "generate_events"
    /\ courses \in CourseLists(MaxCourses)
    /\ semester_start_date \in StartDates
    /\ offset \in Offsets
    /\ course_i = 1 /\ class_i = 1 /\ events = <<>> /\ events_result = EventsOk(<<>>)
    /\ recess_week = 8
    /\ overflow_checks = FALSE
    /\ WeeksIdle
    /\ TableIdle

\* One iteration of the loop over course.classes: the events of one class
\* appended, or the unwrap of an Err, or a panic inside generate_class_events.
ExpandClass ==
    /\ pc = "generate_events"
    /\ course_i <= Len(courses)
    /\ class_i <= Len(courses[course_i].classes)
    /\ LET course == courses[course_i]
           r == generate_class_events(course.code, course.title, course.classes[class_i],
                                      semester_start_date, offset)
       IN  IF r.tag = "Ok"
           THEN /\ events' = events \o r.events
                /\ class_i' = class_i + 1
                /\ UNCHANGED <<pc, events_result>>
           ELSE /\ events_result' = EventsPanic
                /\ pc' = "events_done"
                /\ UNCHANGED <<events, class_i>>
    /\ UNCHANGED <<courses, semester_start_date, offset, course_i, argVars,
                   weeksVars, tableVars>>

\* The end of the loop body for one course: the exam event, if any, pushed,
\* or the panic of its conversion to UTC.
PushExam ==
    /\ pc = "generate_events"
    /\ course_i <= Len(courses)
    /\ class_i > Len(courses[course_i].classes)
    /\ \E course \in {courses[course_i]} :
           IF course.exam = <<>>
           THEN /\ course_i' = course_i + 1
                /\ class_i' = 1
                /\ UNCHANGED <<events, pc, events_result>>
           ELSE \E e \in {generate_exam_event(course.code, course.title, course.exam[1], offset)} :
                   IF e # <<>>
                   THEN /\ events' = events \o e
                        /\ course_i' = course_i + 1
                        /\ class_i' = 1
                        /\ UNCHANGED <<pc, events_result>>
                   ELSE /\ events_result' = EventsPanic
                        /\ pc' = "events_done"
                        /\ UNCHANGED <<events, course_i, class_i>>
    /\ UNCHANGED <<courses, semester_start_date, offset, argVars, weeksVars, tableVars>>

ReturnEvents ==
    /\ pc = "generate_events"
    /\ course_i > Len(courses)
    /\ events_result' = EventsOk(events)
    /\ pc' = "events_done"
    /\ UNCHANGED <<events, course_i, class_i, courses, semester_start_date, offset,
                   argVars, weeksVars, tableVars>>

NextEvents == ExpandClass \/ PushExam \/ ReturnEvents

SpecEvents == InitEvents /\ [][NextEvents]_vars

-----------------------------------------------------------------------------
(* Properties of parse_weeks, checked under SpecWeeks *)

\* The weeks a printed week list denotes: every entry expanded, in order.
RECURSIVE Expand(_)
Expand(es) ==
    IF es = <<>> THEN <<>>
    ELSE [k \in 1..(Head(es)[2] - Head(es)[1] + 1) |-> Head(es)[1] + k - 1] \o Expand(Tail(es))

Shifted(ws, rw) == [k \in 1..Len(ws) |-> IF ws[k] >= rw THEN ws[k] + 1 ELSE ws[k]]

\* C5: for a token that holds "Teaching Wk" followed by a comma-separated
\* list of integers and ranges a-b with a <= b, parse_weeks returns the
\* entries expanded in encounter order, with every week below recess_week
\* unchanged and every other week incremented by one.
C5_WeeksExpandedAndShifted ==
    (pc = "weeks_done" /\ week_list # <<>>)
        => weeks_result = WeeksOk(Shifted(Expand(week_list), recess_week))

\* The second example of the documentation has been parsed.
C5_Witness ==
    /\ pc = "weeks_done"
    /\ weeks_raw = "Teaching Wk6,7,8,9,10"
    /\ recess_week = 8
    /\ weeks_result = WeeksOk(<<6, 7, 9, 10, 11>>)

\* An entry of the list is a bare integer or a range a-b with a <= b.
ValidEntry(x) ==
    \/ Len(x) > 0 /\ AllDigits(x)
    \/ \E p \in 2..(Len(x) - 1) :
          /\ Char(x, p) = "-"
          /\ AllDigits(SubSeq(x, 1, p - 1))
          /\ AllDigits(SubSeq(x, p + 1, Len(x)))
          /\ DecimalValue(SubSeq(x, 1, p - 1)) <= DecimalValue(SubSeq(x, p + 1, Len(x)))

MarkerAbsent(raw) ==
    \A p \in 1..(Len(raw) - Len(Marker) + 1) : SubSeq(raw, p, p + Len(Marker) - 1) # Marker

MalformedWeeks(raw) ==
    \/ MarkerAbsent(raw)
    \/ LET xs == Split(WeeksCapture(raw)[2], ",")
       IN  \E k \in 1..Len(xs) : ~ValidEntry(xs[k])

\* C6: parse_weeks returns an error value whenever the marker is absent or
\* an entry of the list is neither a bare integer nor a range a-b with
\* a <= b (an empty entry, a non-numeric entry, a range with a > b).
C6_MalformedWeeksIsError ==
    (pc = "weeks_done" /\ MalformedWeeks(weeks_raw)) => weeks_result.tag = "Err"

-----------------------------------------------------------------------------
(* Properties of parse_from_table, checked under SpecTable *)

\* The six header columns 0, 1, 2, 3, 6, 7 of a record are non-empty.
IsHeader(row) == \A c \in {1, 2, 3, 4, 7, 8} : row[c] # ""

HasClass(row) == row[10] # ""

HasExam(row) == row[16] # "" /\ row[16] # "Not Applicable"

FullRows(n) == \A k \in 1..n : Len(rows[k]) = NUM_COLUMNS

\* The class columns 9..14 of the well-formed class records of the inputs
\* and the values they denote (weeks before the recess shift).
KnownClasses ==
    { [cells |-> <<"LEC", "L1", "Mon", "0900to1030", "LT1", "Teaching Wk1-3">>,
       weekday |-> 1, start |-> 32400, end |-> 37800, weeks |-> <<1, 2, 3>>],
      [cells |-> <<"TUT", "T2", "Fri", "1430to1530", "TR2", "Teaching Wk8,2">>,
       weekday |-> 5, start |-> 52200, end |-> 55800, weeks |-> <<8, 2>>],
      [cells |-> <<"LAB", "A3", "Wed", "1000to1200", "HW1", "Teaching Wk0-1">>,
       weekday |-> 3, start |-> 36000, end |-> 43200, weeks |-> <<0, 1>>] }

\* A class record whose range is empty: the week list is not well formed,
\* yet every column is accepted.
EmptyRangeClass ==
    [cells |-> <<"SEM", "S4", "sunday", "0000to2359", "", "Teaching Wk5-3">>,
     weekday |-> 7, start |-> 0, end |-> 86340, weeks |-> <<>>]

ClassCells(row) == SubSeq(row, 10, 15)

ExpectedClass(row, known, rw) ==
    LET kc == CHOOSE c \in known : c.cells = ClassCells(row)
    IN  [weekday |-> kc.weekday, period |-> [start |-> kc.start, end |-> kc.end],
         venue |-> row[14], group |-> row[11], weeks |-> Shifted(kc.weeks, rw),
         class_type |-> row[10]]

WellFormedRow(k) ==
    /\ Len(rows[k]) = NUM_COLUMNS
    /\ HasClass(rows[k]) =>
          /\ \E c \in KnownClasses : c.cells = ClassCells(rows[k])
          /\ \E h \in 1..k : IsHeader(rows[h])
    /\ rows[k][16] \in {"", "Not Applicable", ExamGood}

HeaderRows == {k \in 1..Len(rows) : IsHeader(rows[k])}

\* The classes of the records from..to, in record order.
RECURSIVE ClassesOfRows(_, _, _)
ClassesOfRows(from, to, rw) ==
    IF from > to THEN <<>>
    ELSE (IF HasClass(rows[from])
          THEN <<ExpectedClass(rows[from], KnownClasses, rw)>> ELSE <<>>)
         \o ClassesOfRows(from + 1, to, rw)

\* C1: a well-formed input whose token count is a multiple of 16 parses to
\* one Course per record whose six header columns are non-empty, in record
\* order, and every record with a class type contributes one Class to the
\* Course of the most recent header record at or before it, in row order.
C1_OneCoursePerHeaderClassesInRowOrder ==
    (pc = "table_done" /\ \A k \in 1..Len(rows) : WellFormedRow(k))
        => /\ table_result.tag = "Ok"
           /\ Len(table_result.courses) = Cardinality(HeaderRows)
           /\ \A n \in 1..Cardinality(HeaderRows) :
                 LET h == CHOOSE k \in HeaderRows :
                              Cardinality({j \in HeaderRows : j < k}) = n - 1
                     later == {k \in HeaderRows : k > h}
                     last == IF later = {} THEN Len(rows)
                             ELSE (CHOOSE k \in later : \A j \in later : k <= j) - 1
                     c == table_result.courses[n]
                 IN  /\ <<c.code, c.title, c.au, c.course_type, c.index, c.status>>
                           = <<rows[h][1], rows[h][2], rows[h][3], rows[h][4],
                               rows[h][7], rows[h][8]>>
                     /\ c.classes = ClassesOfRows(h, last, recess_week)

\* A header record with a class, then a class record without header: one
\* course holding both classes.
C1_Witness ==
    /\ pc = "table_done"
    /\ Len(rows) = 2
    /\ \A k \in 1..Len(rows) : WellFormedRow(k)
    /\ IsHeader(rows[1]) /\ HasClass(rows[1])
    /\ ~IsHeader(rows[2]) /\ HasClass(rows[2])
    /\ table_result.tag = "Ok"
    /\ Len(table_result.courses) = 1
    /\ Len(table_result.courses[1].classes) = 2

\* C2: when the final chunk has fewer than 16 tokens the parse fails with
\* MissingValues, and the diagnostic names the 0-based chunk index, the
\* expected width 16 and the actual width of the chunk.
C2_ShortChunkDiagnostic ==
    (/\ pc = "table_done"
     /\ Len(rows[Len(rows)]) < NUM_COLUMNS
     /\ \A k \in 1..(Len(rows) - 1) : WellFormedRow(k))
        => /\ table_result.tag = "Err"
           /\ table_result.err = "MissingValues"
           /\ table_result.msg =
                 "Missing columns from table on line " \o ToString(Len(rows) - 1)
                    \o ", expected " \o ToString(NUM_COLUMNS)
                    \o ", found " \o ToString(Len(rows[Len(rows)]))

\* Record k carries a class type, and no record up to k is a header; it is
\* the first record with a class type.
Orphan(k) ==
    /\ FullRows(k)
    /\ HasClass(rows[k])
    /\ \A j \in 1..k : ~IsHeader(rows[j])
    /\ \A j \in 1..(k - 1) : ~HasClass(rows[j])

\* C3 as stated: a record with a class type before any course header makes
\* the parse fail with UnknownCourse, whatever its other columns hold.
C3_OrphanClassAlwaysUnknownCourse ==
    (pc = "table_done" /\ \E k \in 1..Len(rows) : Orphan(k))
        => (table_result.tag = "Err" /\ table_result.err = "UnknownCourse")

\* C3 amended: a record with a class type before any course header, whose
\* weekday, period and week-list columns are accepted by their parsers,
\* makes the parse fail with UnknownCourse carrying the constructed Class,
\* whatever its exam column holds.
C3_OrphanParsedClassUnknownCourse ==
    pc = "table_done" =>
        \A k \in 1..Len(rows) :
            (Orphan(k) /\ \E c \in KnownClasses \cup {EmptyRangeClass} :
                              c.cells = ClassCells(rows[k]))
                => /\ table_result.tag = "Err"
                   /\ table_result.err = "UnknownCourse"
                   /\ table_result.class =
                         <<ExpectedClass(rows[k], KnownClasses \cup {EmptyRangeClass},
                                         recess_week)>>

\* The first record carries a class and a malformed exam and no header, and
\* the parse has failed with UnknownCourse.
C3_Witness ==
    /\ pc = "table_done"
    /\ Orphan(1)
    /\ rows[1][16] = ExamBadDate
    /\ table_result.err = "UnknownCourse"
    /\ Len(table_result.class) = 1

\* C4: a record that carries an exam before any course header makes the
\* parse fail with UnknownCourse; the exam is never silently discarded.
C4_OrphanExamUnknownCourse ==
    (/\ pc = "table_done"
     /\ \E k \in 1..Len(rows) :
           /\ FullRows(k)
           /\ HasExam(rows[k])
           /\ \A j \in 1..k : ~IsHeader(rows[j]) /\ ~HasClass(rows[j]))
        => (table_result.tag = "Err" /\ table_result.err = "UnknownCourse")

\* C10: every Class of a successfully parsed table has a week list sorted
\* ascending with all values >= 1.
C10_WeeksSortedAndPositive ==
    (pc = "table_done" /\ table_result.tag = "Ok")
        => \A n \in 1..Len(table_result.courses) :
              \A m \in 1..Len(table_result.courses[n].classes) :
                 LET ws == table_result.courses[n].classes[m].weeks
                 IN  /\ \A j \in 1..Len(ws) : ws[j] >= 1
                     /\ \A j \in 1..(Len(ws) - 1) : ws[j] <= ws[j + 1]

-----------------------------------------------------------------------------
(* Properties of generate_events, checked under SpecEvents *)

RECURSIVE InsertAsc(_, _)
InsertAsc(w, ws) ==
    IF ws = <<>> THEN <<w>>
    ELSE IF w <= Head(ws) THEN <<w>> \o ws
    ELSE <<Head(ws)>> \o InsertAsc(w, Tail(ws))

RECURSIVE SortAsc(_)
SortAsc(ws) == IF ws = <<>> THEN <<>> ELSE InsertAsc(Head(ws), SortAsc(Tail(ws)))

RECURSIVE ConcatAll(_)
ConcatAll(ss) == IF ss = <<>> THEN <<>> ELSE Head(ss) \o ConcatAll(Tail(ss))

RECURSIVE SumAll(_)
SumAll(ns) == IF ns = <<>> THEN 0 ELSE Head(ns) + SumAll(Tail(ns))

\* N: the class-week pairs of the courses; E: the courses with an exam.
ClassWeekPairs ==
    SumAll([n \in 1..Len(courses) |->
               SumAll([m \in 1..Len(courses[n].classes) |-> Len(courses[n].classes[m].weeks)])])

ExamCourses == Cardinality({n \in 1..Len(courses) : courses[n].exam # <<>>})

\* The date of week w of a class whose first occurrence is first.
OccurrenceDate(first, w) == DateFromDays(NumDaysFromCe(first) + 7 * (w - 1))

\* The events of one course in the documented order: classes in class order,
\* the weeks of a class ascending, the exam event last.
OrderedCourseEvents(course) ==
    ConcatAll([m \in 1..Len(course.classes) |->
        LET class == course.classes[m]
            first == from_isoywd_opt(semester_start_date[1], IsoWeek(semester_start_date)[2],
                                     class.weekday)
            ws == SortAsc(class.weeks)
        IN  ConcatAll([j \in 1..Len(ws) |->
                ClassEventOf(course.code, course.title, class,
                             OccurrenceDate(first, ws[j]), offset)])])
    \o (IF course.exam # <<>>
        THEN generate_exam_event(course.code, course.title, course.exam[1], offset)
        ELSE <<>>)

\* C7: for any Course sequence generate_events returns exactly N+E records,
\* in course order, within a course in class order, within a class in
\* week-ascending order, the exam event of a course last.
C7_AllEventsInOrder ==
    pc = "events_done"
        => /\ events_result.tag = "Ok"
           /\ Len(events_result.events) = ClassWeekPairs + ExamCourses
           /\ events_result.events =
                 ConcatAll([n \in 1..Len(courses) |-> OrderedCourseEvents(courses[n])])

\* The date of the Monday-to-Sunday week of start whose weekday is wd: the
\* date with the ISO year and ISO week of start.
IsoFirst(start, wd) ==
    CHOOSE d \in {DateFromDays(NumDaysFromCe(start) + k) : k \in -6..6} :
        IsoWeek(d) = IsoWeek(start) /\ WeekdayOf(d) = wd

\* The DTSTART of the event of week w of a class whose first occurrence is
\* first; no stamp when the instant is outside of the dates chrono holds.
ExpectedStart(class, utc) ==
    <<"DTSTART", IF utc = <<>> THEN "" ELSE to_rfc5545_datetime_with_utc(utc)>>

ExpectedStartOfWeek(class, first, w) ==
    ExpectedStart(class, UtcOf(NumDaysFromCe(first) + 7 * (w - 1), class.period.start - offset))

\* The class has a week with no event even from the first occurrence first:
\* week 0, or a date or an instant outside of the dates chrono holds.
NoEventFrom(class, first) ==
    \E j \in 1..Len(class.weeks) :
        ClassEventOfWeek("", "", class, first, class.weeks[j], offset) = <<>>

\* C8: the first occurrence of a class is the date with the ISO year and ISO
\* week of semester_start_date and the weekday of the class, for every
\* semester_start_date, and the event of week w is dated 7*(w-1) days later:
\* the events of a class start on these dates, and the expansion of a class
\* stops only on a week that has no event from this first occurrence.
C8_FirstOccurrenceInIsoWeek ==
    /\ (pc = "generate_events" /\ class_i > 1)
          => LET class == courses[course_i].classes[class_i - 1]
                 n == Len(class.weeks)
                 first == IsoFirst(semester_start_date, class.weekday)
             IN  \A j \in 1..n :
                    events[Len(events) - n + j].props[2] =
                        ExpectedStartOfWeek(class, first, class.weeks[j])
    /\ (/\ pc = "events_done"
        /\ events_result.tag = "Panic"
        /\ class_i <= Len(courses[course_i].classes))
          => NoEventFrom(courses[course_i].classes[class_i],
                         IsoFirst(semester_start_date, courses[course_i].classes[class_i].weekday))

\* C9: generate_events returns the full event sequence or an error value; it
\* returns the error when the (year, week, weekday) triple of a class has no
\* date, and never aborts.
C9_DateResolutionIsAnErrorValue ==
    pc = "events_done"
        => /\ events_result.tag \in {"Ok", "Err"}
           /\ (\E n \in 1..Len(courses) : \E m \in 1..Len(courses[n].classes) :
                  from_isoywd_opt(semester_start_date[1], IsoWeek(semester_start_date)[2],
                                  courses[n].classes[m].weekday) = <<>>)
                 => events_result.tag = "Err"

====
